---- MODULE Spec2Model ----
(***************************************************************************)
(* Lifespan-Inflation: the projection engines of the calculator variants   *)
(* (src/src/App.tsx, src/unnamed/part_000) and the one-shot BTC price      *)
(* fetch of the cumulative variant.                                        *)
(*                                                                         *)
(* JavaScript numbers are modelled as exact rationals n/d over arbitrary   *)
(* precision integers (little-endian sequences of base-10000 limbs), since *)
(* the values of the projection (for instance 1.03^10 * 60000) do not fit  *)
(* machine integers.  A zero denominator encodes the non-finite results of *)
(* a division by zero (0/0 = NaN, x/0 = +-Infinity).  Rounding of IEEE     *)
(* doubles is not modelled.  Percentages are whole percents, a subset of   *)
(* the sliders' 0.1 steps.                                                 *)
(***************************************************************************)
EXTENDS Integers, Sequences, FiniteSets, TLC

(***************************************************************************)
(* Natural numbers of arbitrary size: sequences of limbs 0..9999, least    *)
(* significant first, without leading (high) zero limbs; <<>> is zero.     *)
(***************************************************************************)
RECURSIVE MagFromNat(_)
MagFromNat(n) ==
    IF n = 0 THEN <<>> ELSE <<n % 10000>> \o MagFromNat(n \div 10000)

RECURSIVE MagTrim(_)
MagTrim(m) ==
    IF m = <<>> THEN <<>>
    ELSE IF m[Len(m)] = 0 THEN MagTrim(SubSeq(m, 1, Len(m) - 1))
    ELSE m

MagLimb(m, j) == IF j <= Len(m) THEN m[j] ELSE 0

\* the carry into limb j of m + n
RECURSIVE MagCarry(_, _, _)
MagCarry(m, n, j) ==
    IF j = 1 THEN 0
    ELSE (MagLimb(m, j - 1) + MagLimb(n, j - 1) + MagCarry(m, n, j - 1)) \div 10000

MagAdd(m, n) ==
    LET len == (IF Len(m) > Len(n) THEN Len(m) ELSE Len(n)) + 1
        carry == [j \in 1..len |->
                    IF j = 1 THEN 0
                    ELSE IF MagLimb(m, j - 1) + MagLimb(n, j - 1) < 9999 THEN 0
                    ELSE IF MagLimb(m, j - 1) + MagLimb(n, j - 1) > 9999 THEN 1
                    ELSE MagCarry(m, n, j - 1)]
    IN  MagTrim([j \in 1..len |-> (MagLimb(m, j) + MagLimb(n, j) + carry[j]) % 10000])

\* the borrow into limb j of m - n
RECURSIVE MagBorrow(_, _, _)
MagBorrow(m, n, j) ==
    IF j = 1 THEN 0
    ELSE IF MagLimb(m, j - 1) > MagLimb(n, j - 1) THEN 0
    ELSE IF MagLimb(m, j - 1) < MagLimb(n, j - 1) THEN 1
    ELSE MagBorrow(m, n, j - 1)

\* m - n for m >= n
MagSub(m, n) ==
    MagTrim([j \in 1..Len(m) |->
                (MagLimb(m, j) - MagLimb(n, j) - MagBorrow(m, n, j) + 10000) % 10000])

\* -1, 0, 1 as m < n, m = n, m > n
MagCmp(m, n) ==
    IF Len(m) < Len(n) THEN -1
    ELSE IF Len(m) > Len(n) THEN 1
    ELSE IF m = n THEN 0
    ELSE LET top == CHOOSE j \in 1..Len(m) :
                        m[j] # n[j] /\ \A h \in (j + 1)..Len(m) : m[h] = n[h]
         IN  IF m[top] < n[top] THEN -1 ELSE 1

\* m * s + c for one limb s
RECURSIVE MagMulSmall(_, _, _)
MagMulSmall(m, s, c) ==
    IF m = <<>> THEN MagFromNat(c)
    ELSE <<(Head(m) * s + c) % 10000>>
         \o MagMulSmall(Tail(m), s, (Head(m) * s + c) \div 10000)

\* m * 10000^z
MagShift(m, z) == IF m = <<>> THEN <<>> ELSE [j \in 1..z |-> 0] \o m

\* the sum of m[j] * 10000^(j-1) * n over j = lo..hi, by halves
RECURSIVE MagMulRange(_, _, _, _)
MagMulRange(m, n, lo, hi) ==
    IF lo = hi THEN MagShift(MagMulSmall(n, m[lo], 0), lo - 1)
    ELSE LET mid == (lo + hi) \div 2
         IN  MagAdd(MagMulRange(m, n, lo, mid), MagMulRange(m, n, mid + 1, hi))

MagMulR(m, n) == IF m = <<>> THEN <<>> ELSE MagMulRange(m, n, 1, Len(m))

MagMul(m, n) ==
    IF m = <<>> \/ n = <<>> THEN <<>>
    ELSE IF m = <<1>> THEN n
    ELSE IF n = <<1>> THEN m
    ELSE IF Len(m) <= Len(n) THEN MagTrim(MagMulR(m, n))
    ELSE MagTrim(MagMulR(n, m))

\* m / 10 for a multiple m of 10
MagTenth(m) ==
    MagTrim([j \in 1..Len(m) |-> (m[j] \div 10) + (MagLimb(m, j + 1) % 10) * 1000])

\* the largest q in lo..hi with m * q <= n (m * lo <= n is given)
RECURSIVE MagQuot(_, _, _, _)
MagQuot(m, n, lo, hi) ==
    IF lo = hi THEN lo
    ELSE LET mid == (lo + hi + 1) \div 2
         IN  IF MagCmp(MagMulSmall(m, mid, 0), n) <= 0
             THEN MagQuot(m, n, mid, hi)
             ELSE MagQuot(m, n, lo, mid - 1)

\* the limb q with m * q = n, or 0 when there is none
MagRatio(m, n) ==
    IF m = <<>> \/ Len(n) < Len(m) \/ Len(n) > Len(m) + 1 THEN 0
    ELSE LET q == MagQuot(m, n, 0, 9999)
         IN  IF MagMulSmall(m, q, 0) = n THEN q ELSE 0

(***************************************************************************)
(* Signed integers: [neg, mag], zero is never negative.                    *)
(***************************************************************************)
BigInt(neg, mag) == [neg |-> neg /\ mag # <<>>, mag |-> mag]

BigFromInt(v) == IF v < 0 THEN BigInt(TRUE, MagFromNat(-v))
                 ELSE BigInt(FALSE, MagFromNat(v))

BigNeg(v) == BigInt(~v.neg, v.mag)

BigAdd(v, w) ==
    IF v.neg = w.neg THEN BigInt(v.neg, MagAdd(v.mag, w.mag))
    ELSE IF MagCmp(v.mag, w.mag) >= 0 THEN BigInt(v.neg, MagSub(v.mag, w.mag))
    ELSE BigInt(w.neg, MagSub(w.mag, v.mag))

BigMul(v, w) == BigInt(v.neg # w.neg, MagMul(v.mag, w.mag))

BigScale(v, mag) == BigInt(v.neg, MagMul(v.mag, mag))

\* -1, 0, 1
BigSign(v) == IF v.mag = <<>> THEN 0 ELSE IF v.neg THEN -1 ELSE 1

(***************************************************************************)
(* number: a rational [n |-> BigInt, d |-> magnitude].  d = <<>> is a      *)
(* non-finite value.  Common factors of 10 are cancelled, so that decimal  *)
(* fractions keep a denominator 10^k; the value n/d is what matters, and   *)
(* numbers are compared with NumEq, NumLt, NumLeq.                         *)
(***************************************************************************)
\* the number of zero limbs at the low end of m # 0
MagZeroLimbs(m) ==
    (CHOOSE j \in 1..Len(m) : m[j] # 0 /\ \A h \in 1..(j - 1) : m[h] = 0) - 1

RECURSIVE NumNorm(_, _)
NumNorm(n, d) ==
    IF d = <<>> THEN [n |-> BigFromInt(BigSign(n)), d |-> <<>>]
    ELSE IF n.mag = <<>> THEN [n |-> n, d |-> <<1>>]
    ELSE IF Head(n.mag) = 0 /\ Head(d) = 0
         THEN LET zn == MagZeroLimbs(n.mag)
                  zd == MagZeroLimbs(d)
                  z == IF zn < zd THEN zn ELSE zd
              IN  NumNorm(BigInt(n.neg, SubSeq(n.mag, z + 1, Len(n.mag))),
                          SubSeq(d, z + 1, Len(d)))
    ELSE IF Head(n.mag) % 10 = 0 /\ Head(d) % 10 = 0
         THEN NumNorm(BigInt(n.neg, MagTenth(n.mag)), MagTenth(d))
    ELSE [n |-> n, d |-> d]

Num(v) == [n |-> BigFromInt(v), d |-> <<1>>]

IsFinite(v) == v.d # <<>>
IsNaN(v) == v.d = <<>> /\ v.n.mag = <<>>

\* v + w over the larger denominator when it is a one-limb multiple of the
\* other, over the product of the denominators otherwise
NumAdd(v, w) ==
    IF v.d = w.d THEN NumNorm(BigAdd(v.n, w.n), v.d)
    ELSE LET qv == MagRatio(v.d, w.d)
             qw == MagRatio(w.d, v.d)
         IN  IF qv > 0 THEN NumNorm(BigAdd(BigScale(v.n, <<qv>>), w.n), w.d)
             ELSE IF qw > 0 THEN NumNorm(BigAdd(v.n, BigScale(w.n, <<qw>>)), v.d)
             ELSE NumNorm(BigAdd(BigScale(v.n, w.d), BigScale(w.n, v.d)),
                          MagMul(v.d, w.d))

NumNeg(v) == [n |-> BigNeg(v.n), d |-> v.d]

NumSub(v, w) == NumAdd(v, NumNeg(w))

NumMul(v, w) == NumNorm(BigMul(v.n, w.n), MagMul(v.d, w.d))

\* v / w; w = 0 gives a zero denominator (Infinity, or NaN for 0/0)
NumDiv(v, w) ==
    NumNorm(BigMul(v.n, BigInt(w.n.neg, w.d)), MagMul(v.d, w.n.mag))

\* Math.pow(v, e) for an integer e >= 0 (Math.pow(v, 0) is 1 for every v),
\* by squaring, so that an exponent of 30 nests five multiplications deep
RECURSIVE NumPow(_, _)
NumPow(v, e) ==
    IF e = 0 THEN Num(1)
    ELSE LET half == NumPow(v, e \div 2)
             square == NumMul(half, half)
         IN  IF e % 2 = 0 THEN square ELSE NumMul(v, square)

\* sign of v - w for finite v, w
NumCmp(v, w) ==
    IF v.d = w.d THEN BigSign(BigAdd(v.n, BigNeg(w.n)))
    ELSE BigSign(BigAdd(BigScale(v.n, w.d), BigNeg(BigScale(w.n, v.d))))

\* comparisons are false when an operand is not finite
NumEq(v, w) == IsFinite(v) /\ IsFinite(w) /\ NumCmp(v, w) = 0
NumLt(v, w) == IsFinite(v) /\ IsFinite(w) /\ NumCmp(v, w) < 0
NumLeq(v, w) == IsFinite(v) /\ IsFinite(w) /\ NumCmp(v, w) <= 0

(***************************************************************************)
(* Optional values (number | null, string | null) and strings.  A string   *)
(* is a sequence of one-character strings, so that String(n) and Number(s) *)
(* are computed and not assumed.                                           *)
(***************************************************************************)
None == <<>>
Some(v) == <<v>>

Digits == <<"0", "1", "2", "3", "4", "5", "6", "7", "8", "9">>
DigitChars == {Digits[j] : j \in 1..10}
DigitVal(c) == (CHOOSE j \in 1..10 : Digits[j] = c) - 1

\* String(n) for an integer n
RECURSIVE NatToString(_)
NatToString(n) ==
    IF n < 10 THEN <<Digits[n + 1]>>
    ELSE NatToString(n \div 10) \o <<Digits[(n % 10) + 1]>>

String(n) == IF n < 0 THEN <<"-">> \o NatToString(-n) ELSE NatToString(n)

RECURSIVE DigitsToNat(_, _)
DigitsToNat(s, acc) ==
    IF s = <<>> THEN acc ELSE DigitsToNat(Tail(s), acc * 10 + DigitVal(Head(s)))

IsDigits(s) == s # <<>> /\ \A j \in 1..Len(s) : s[j] \in DigitChars

\* Number(s) on the strings used here: "" is 0, an optionally signed run of
\* digits is its value, anything else is NaN (None)
Number(s) ==
    IF s = <<>> THEN Some(0)
    ELSE IF IsDigits(s) THEN Some(DigitsToNat(s, 0))
    ELSE IF Head(s) = "-" /\ IsDigits(Tail(s)) THEN Some(0 - DigitsToNat(Tail(s), 0))
    ELSE None

(***************************************************************************)
(* Program constants and the inputs the handlers are driven with.          *)
(***************************************************************************)
FALLBACK_BTC_PRICE == 60000
DefaultInflationPercent == 3
DefaultAssetGrowthPercent == 7
DefaultExtraYears == 10
DefaultAnnualExpenseToday == 60000
DefaultStartingPortfolio == 1000000
MaxAnnualExpense == 10000000
\* cost-trajectory component, part_000:23-30
DefaultStartingCost == 100
DefaultAssetInflation == 7
DefaultFiatDeflation == 3
DefaultYears == 30
MinStartingCost == 1
MaxStartingCost == 1000000

\* horizons 0..MaxT besides the default horizon
MaxT == 2

VARIABLES
    variant,             \* which App component is mounted
    units,               \* App.tsx:50 (USD/BTC variant)
    scaleMode,           \* part_000:284 (cumulative variant)
    inflationPercent, assetGrowthPercent, extraYears,
    annualExpenseToday, startingPortfolio,
    fetchedBtcPrice, btcPriceInput, btcUpdatedAt, btcFetchWarning,
    fetchPending,        \* the request of loadBtcPrice is in flight
    pc,                  \* "memo": the projection loop is running; "idle": rendered
    k, points, runningUsdTotal, runningBtcTotal, portfolio, depletion,
    result,              \* the value the projection useMemo last returned
    startingCost, assetInflation, fiatDeflation, years,   \* part_000:27-30
    trajectory           \* the value the cost-trajectory useMemo last returned

params == <<inflationPercent, assetGrowthPercent, extraYears,
            annualExpenseToday, startingPortfolio>>
price == <<fetchedBtcPrice, btcPriceInput, btcUpdatedAt, btcFetchWarning, fetchPending>>
memo == <<pc, k, points, runningUsdTotal, runningBtcTotal, portfolio, depletion, result>>
cost == <<startingCost, assetInflation, fiatDeflation, years, trajectory>>
vars == <<variant, units, scaleMode, params, price, memo, cost>>

Variants == {"usdbtc", "assetadj", "cumulative"}
\* the values the inputs are driven with; the cumulative variant, whose state
\* also holds the price request and the override, is driven with fewer
InflationValues == {0, DefaultInflationPercent}
AssetGrowthValues ==
    IF variant = "cumulative" THEN {-10, DefaultAssetGrowthPercent}
    ELSE {-10, 0, 3, DefaultAssetGrowthPercent}
ExtraYearsValues == (0..MaxT) \cup {DefaultExtraYears}
PortfolioValues == {0, 100, DefaultStartingPortfolio}
\* texts of the annual-expense input: "", "-5", "abc", and "50" or "20000000"
ExpenseTexts ==
    {<<>>, <<"-", "5">>, <<"a", "b", "c">>}
    \cup (IF variant = "cumulative" THEN {String(20000000)} ELSE {String(50)})
\* texts of the BTC price override input: "70000", "", "abc"
BtcPriceTexts == {String(70000), <<>>, <<"a", "b", "c">>}
\* what the price request can come back with: fetch() rejecting, a non-OK
\* status, a body that is not JSON, or a payload whose bitcoin?.usd and
\* bitcoin?.last_updated_at are present or undefined (None)
Responses ==
    [status : {"reject", "http_error", "bad_json"}, usd : {None}, last_updated_at : {None}]
    \cup [status : {"payload"}, usd : {None, Some(0), Some(-1), Some(50000)},
          last_updated_at : {None, Some(1700000000)}]

(***************************************************************************)
(* The projection's formulas.                                              *)
(***************************************************************************)
clampUpperOnly(value, min, max) == IF value < max THEN value ELSE max

clamp(value, min, max) ==
    LET lo == IF value > min THEN value ELSE min
    IN  IF lo < max THEN lo ELSE max

iUnscaled == Num(inflationPercent)

i == NumDiv(Num(inflationPercent), Num(100))
a == NumDiv(Num(assetGrowthPercent), Num(100))

ratioBaseInverted == NumDiv(NumAdd(Num(1), a), NumAdd(Num(1), i))

ratioBase == NumDiv(NumAdd(Num(1), i), NumAdd(Num(1), a))
lifWithoutMinusOne == NumPow(ratioBase, extraYears)

lif == NumSub(NumPow(ratioBase, extraYears), Num(1))

Ratio(kk) == NumPow(ratioBase, kk)
BtcUsdIndexFromInflation(kk) == NumPow(NumAdd(Num(1), i), kk)

BtcUsdIndex(kk) == NumPow(NumAdd(Num(1), a), kk)
NominalExpense(kk) == NumMul(Num(annualExpenseToday), NumPow(NumAdd(Num(1), i), kk))
AssetAdjustedExpenseInverse(kk) == NumDiv(Num(annualExpenseToday), Ratio(kk))

AssetAdjustedExpense(kk) == NumMul(Num(annualExpenseToday), Ratio(kk))

LoopConditionExclusive == k < extraYears

\* for (let k = 0; k <= extraYears; k += 1)
LoopCondition == k <= extraYears

AccumulateFromYearZero(total, kk, value) == NumAdd(total, value)

\* if (k > 0) { total += value }
Accumulate(total, kk, value) == IF kk > 0 THEN NumAdd(total, value) ELSE total

PortfolioStepSpendFirst(pf, kk, nominal) ==
    IF kk > 0 THEN NumMul(NumSub(pf, nominal), NumAdd(Num(1), a)) ELSE pf

\* if (k > 0) { portfolio = portfolio * (1 + a) - nominalExpense; ... }
PortfolioStep(pf, kk, nominal) ==
    IF kk > 0 THEN NumSub(NumMul(pf, NumAdd(Num(1), a)), nominal) ELSE pf

DepletionStepBelowZero(dep, kk, pf) ==
    IF kk > 0 /\ dep = None /\ NumLt(pf, Num(0)) THEN Some(kk) ELSE dep

DepletionStepOverwriting(dep, kk, pf) ==
    IF kk > 0 /\ NumLeq(pf, Num(0)) THEN Some(kk) ELSE dep

\* ... if (depletion === null && portfolio <= 0) { depletion = k } (inside k > 0)
DepletionStep(dep, kk, pf) ==
    IF kk > 0 /\ dep = None /\ NumLeq(pf, Num(0)) THEN Some(kk) ELSE dep

AverageUnguarded(total) == NumDiv(total, Num(extraYears))

\* extraYears > 0 ? total / extraYears : 0
Average(total) == IF extraYears > 0 THEN NumDiv(total, Num(extraYears)) ELSE Num(0)

\* points[points.length - 1] ?? fallback
LastPoint(pts, fallback) == IF pts # <<>> THEN pts[Len(pts)] ELSE fallback

EffectivePriceUnchecked(input, fetched) ==
    LET parsed == Number(input)
    IN  IF parsed = None THEN fetched ELSE parsed[1]

EffectivePriceAcceptingZero(input, fetched) ==
    LET parsed == Number(input)
    IN  IF parsed = None \/ parsed[1] < 0 THEN fetched ELSE parsed[1]

\* parsed = Number(btcPriceInput); !Number.isFinite(parsed) || parsed <= 0 ? fetched : parsed
EffectivePrice(input, fetched) ==
    LET parsed == Number(input)
    IN  IF parsed = None \/ parsed[1] <= 0 THEN fetched ELSE parsed[1]

effectiveBtcPrice == EffectivePrice(btcPriceInput, fetchedBtcPrice)

(***************************************************************************)
(* Construction: the useState defaults, the first render about to run the  *)
(* projection loop, and (cumulative variant) the price request in flight.  *)
(***************************************************************************)
Init ==
    /\ variant \in Variants
    /\ units = "USD"
    /\ scaleMode = "linear"
    /\ inflationPercent = DefaultInflationPercent
    /\ assetGrowthPercent = DefaultAssetGrowthPercent
    /\ extraYears = DefaultExtraYears
    /\ annualExpenseToday = DefaultAnnualExpenseToday
    /\ startingPortfolio = DefaultStartingPortfolio
    /\ fetchedBtcPrice = FALLBACK_BTC_PRICE
    /\ btcPriceInput = String(FALLBACK_BTC_PRICE)
    /\ btcUpdatedAt = None
    /\ btcFetchWarning = Some("Using fallback BTC price until market data loads.")
    /\ fetchPending = (variant = "cumulative")
    /\ pc = "memo"
    /\ k = 0
    /\ points = <<>>
    /\ runningUsdTotal = Num(0)
    /\ runningBtcTotal = Num(0)
    /\ portfolio = Num(DefaultStartingPortfolio)
    /\ depletion = None
    /\ result = None
    /\ startingCost = DefaultStartingCost
    /\ assetInflation = DefaultAssetInflation
    /\ fiatDeflation = DefaultFiatDeflation
    /\ years = DefaultYears
    /\ trajectory = None

RecomputeKeepingTotals ==
    /\ pc' = "memo"
    /\ k' = 0
    /\ points' = <<>>
    /\ portfolio' = Num(startingPortfolio')
    /\ depletion' = None
    /\ result' = None
    /\ UNCHANGED <<runningUsdTotal, runningBtcTotal>>

\* a dependency of the projection useMemo changed: the next render runs its
\* body again, from the declarations before the loop
Recompute ==
    /\ pc' = "memo"
    /\ k' = 0
    /\ points' = <<>>
    /\ runningUsdTotal' = Num(0)
    /\ runningBtcTotal' = Num(0)
    /\ portfolio' = Num(startingPortfolio')
    /\ depletion' = None
    /\ result' = None

(***************************************************************************)
(* USD/BTC variant, src/src/App.tsx:71-146                                 *)
(***************************************************************************)
LoopUsdBtc ==
    /\ variant = "usdbtc" /\ pc = "memo" /\ LoopCondition
    /\ LET ratio == Ratio(k)
           btcUsdIndex == BtcUsdIndex(k)
           nominalExpenseUsd == NominalExpense(k)
           portfolioUsd == PortfolioStep(portfolio, k, nominalExpenseUsd)
           expenseBtc == NumDiv(nominalExpenseUsd, btcUsdIndex)
           portfolioBtc == NumDiv(portfolioUsd, btcUsdIndex)
       IN  /\ runningUsdTotal' = Accumulate(runningUsdTotal, k, nominalExpenseUsd)
           /\ portfolio' = portfolioUsd
           /\ depletion' = DepletionStep(depletion, k, portfolioUsd)
           /\ runningBtcTotal' = Accumulate(runningBtcTotal, k, expenseBtc)
           /\ points' = Append(points, [year |-> k, ratio |-> ratio,
                                        E_nom_usd |-> nominalExpenseUsd,
                                        P_usd |-> portfolioUsd,
                                        E_btc |-> expenseBtc,
                                        P_btc |-> portfolioBtc])
    /\ k' = k + 1
    /\ UNCHANGED <<variant, cost, units, scaleMode, params, price, pc, result>>

ReturnUsdBtc ==
    /\ variant = "usdbtc" /\ pc = "memo" /\ ~LoopCondition
    /\ LET finalPoint == LastPoint(points,
                           [ratio |-> Num(1),
                            E_nom_usd |-> Num(annualExpenseToday),
                            P_usd |-> Num(startingPortfolio),
                            E_btc |-> Num(annualExpenseToday),
                            P_btc |-> Num(startingPortfolio)])
       IN  result' = Some([series |-> points,
                           lifespanInflationFactor |-> lif,
                           lifespanInflationPercent |-> NumMul(lif, Num(100)),
                           finalRatio |-> finalPoint.ratio,
                           finalAnnualExpenseUsd |-> finalPoint.E_nom_usd,
                           finalAnnualExpenseBtc |-> finalPoint.E_btc,
                           totalExpensesUsd |-> runningUsdTotal,
                           totalExpensesBtc |-> runningBtcTotal,
                           avgAnnualExpenseUsd |-> Average(runningUsdTotal),
                           avgAnnualExpenseBtc |-> Average(runningBtcTotal),
                           finalPortfolioUsd |-> finalPoint.P_usd,
                           finalPortfolioBtc |-> finalPoint.P_btc,
                           depletionYear |-> depletion])
    /\ pc' = "idle"
    /\ UNCHANGED <<variant, cost, units, scaleMode, params, price,
                   k, points, runningUsdTotal, runningBtcTotal, portfolio, depletion>>

(***************************************************************************)
(* Asset-adjusted variant, src/src/App.tsx:408-476                         *)
(***************************************************************************)
LoopAssetAdj ==
    /\ variant = "assetadj" /\ pc = "memo" /\ LoopCondition
    /\ LET ratio == Ratio(k)
           nominalExpense == NominalExpense(k)
           assetAdjustedExpense == AssetAdjustedExpense(k)
           newPortfolio == PortfolioStep(portfolio, k, nominalExpense)
       IN  /\ runningUsdTotal' = Accumulate(runningUsdTotal, k, nominalExpense)
           /\ runningBtcTotal' = Accumulate(runningBtcTotal, k, assetAdjustedExpense)
           /\ portfolio' = newPortfolio
           /\ depletion' = DepletionStep(depletion, k, newPortfolio)
           /\ points' = Append(points, [year |-> k, ratio |-> ratio,
                                        nominalExpense |-> nominalExpense,
                                        assetAdjustedExpense |-> assetAdjustedExpense,
                                        portfolio |-> newPortfolio])
    /\ k' = k + 1
    /\ UNCHANGED <<variant, cost, units, scaleMode, params, price, pc, result>>

ReturnAssetAdj ==
    /\ variant = "assetadj" /\ pc = "memo" /\ ~LoopCondition
    /\ LET finalPoint == LastPoint(points,
                           [ratio |-> Num(1),
                            nominalExpense |-> Num(annualExpenseToday),
                            assetAdjustedExpense |-> Num(annualExpenseToday)])
       IN  result' = Some([series |-> points,
                           lifespanInflationFactor |-> lif,
                           lifespanInflationPercent |-> NumMul(lif, Num(100)),
                           finalRatio |-> finalPoint.ratio,
                           finalNominalExpense |-> finalPoint.nominalExpense,
                           finalAssetAdjustedExpense |-> finalPoint.assetAdjustedExpense,
                           totalNominal |-> runningUsdTotal,
                           totalAssetAdjusted |-> runningBtcTotal,
                           avgNominal |-> Average(runningUsdTotal),
                           avgAssetAdjusted |-> Average(runningBtcTotal),
                           depletionYear |-> depletion])
    /\ pc' = "idle"
    /\ UNCHANGED <<variant, cost, units, scaleMode, params, price,
                   k, points, runningUsdTotal, runningBtcTotal, portfolio, depletion>>

(***************************************************************************)
(* Cumulative variant, src/unnamed/part_000:339-382                        *)
(***************************************************************************)
RECURSIVE AfterYearZero(_)
\* points.filter((point) => point.year > 0)
AfterYearZero(pts) ==
    IF pts = <<>> THEN <<>>
    ELSE IF Head(pts).year > 0 THEN <<Head(pts)>> \o AfterYearZero(Tail(pts))
    ELSE AfterYearZero(Tail(pts))

\* scaleMode === "log" ? points.filter((point) => point.year > 0) : points
TrimmedPoints(pts, mode) == IF mode = "log" THEN AfterYearZero(pts) ELSE pts

RECURSIVE Positives(_)
\* values.filter((value) => value > 0)
Positives(vals) ==
    IF vals = <<>> THEN <<>>
    ELSE IF NumLt(Num(0), Head(vals)) THEN <<Head(vals)>> \o Positives(Tail(vals))
    ELSE Positives(Tail(vals))

RECURSIVE MathMin(_)
\* Math.min(...vals) of a non-empty list of finite values
MathMin(vals) ==
    IF Len(vals) = 1 THEN Head(vals)
    ELSE LET rest == MathMin(Tail(vals))
         IN  IF NumLt(Head(vals), rest) THEN Head(vals) ELSE rest

\* positives.length > 0 ? Math.min(...positives) : fallback
MinPositive(vals, fallback) ==
    LET positives == Positives(vals)
    IN  IF Len(positives) > 0 THEN MathMin(positives) ELSE fallback

LoopCumulative ==
    /\ variant = "cumulative" /\ pc = "memo" /\ LoopCondition
    /\ LET expenseUsd == NominalExpense(k)
           btcPrice == NumMul(Num(effectiveBtcPrice), BtcUsdIndex(k))
           expenseBtc == NumDiv(expenseUsd, btcPrice)
           newUsd == Accumulate(runningUsdTotal, k, expenseUsd)
           newBtc == Accumulate(runningBtcTotal, k, expenseBtc)
       IN  /\ runningUsdTotal' = newUsd
           /\ runningBtcTotal' = newBtc
           /\ points' = Append(points, [year |-> k, cumUsd |-> newUsd, cumBtc |-> newBtc])
    /\ k' = k + 1
    /\ UNCHANGED <<variant, cost, units, scaleMode, params, price, pc, portfolio, depletion, result>>

ReturnCumulative ==
    /\ variant = "cumulative" /\ pc = "memo" /\ ~LoopCondition
    /\ LET trimmedPoints == TrimmedPoints(points, scaleMode)
           last == LastPoint(points, [cumUsd |-> Num(0), cumBtc |-> Num(0)])
       IN  result' = Some([series |-> points,
                           chartSeries |-> trimmedPoints,
                           cumUsdAtT |-> last.cumUsd,
                           cumBtcAtT |-> last.cumBtc,
                           lifespanInflationFactor |-> lif,
                           minPositiveUsd |->
                               MinPositive([j \in 1..Len(trimmedPoints) |-> trimmedPoints[j].cumUsd],
                                           Num(1)),
                           minPositiveBtc |->
                               MinPositive([j \in 1..Len(trimmedPoints) |-> trimmedPoints[j].cumBtc],
                                           NumDiv(Num(1), Num(1000000)))])
    /\ pc' = "idle"
    /\ UNCHANGED <<variant, cost, units, scaleMode, params, price,
                   k, points, runningUsdTotal, runningBtcTotal, portfolio, depletion>>

(***************************************************************************)
(* Input handlers.  They run between renders (pc = "idle"); a handler that *)
(* changes a dependency of the projection makes the next render recompute  *)
(* it.  Setting a state to the value it has is no state change.            *)
(***************************************************************************)
setUnits(v) ==
    /\ variant = "usdbtc" /\ pc = "idle" /\ v # units
    /\ units' = v
    /\ UNCHANGED <<variant, cost, scaleMode, params, price, memo>>

setInflationPercent(v) ==
    /\ pc = "idle" /\ v # inflationPercent
    /\ inflationPercent' = v
    /\ UNCHANGED <<variant, cost, units, scaleMode, assetGrowthPercent, extraYears,
                   annualExpenseToday, startingPortfolio, price>>
    /\ Recompute

setAssetGrowthPercent(v) ==
    /\ pc = "idle" /\ v # assetGrowthPercent
    /\ assetGrowthPercent' = v
    /\ UNCHANGED <<variant, cost, units, scaleMode, inflationPercent, extraYears,
                   annualExpenseToday, startingPortfolio, price>>
    /\ Recompute

setExtraYears(v) ==
    /\ pc = "idle" /\ v # extraYears
    /\ extraYears' = v
    /\ UNCHANGED <<variant, cost, units, scaleMode, inflationPercent, assetGrowthPercent,
                   annualExpenseToday, startingPortfolio, price>>
    /\ Recompute

\* clamp(Number(event.target.value) || 0, 0, 10_000_000)
ExpenseFromText(text) ==
    LET parsed == Number(text)
    IN  clamp(IF parsed = None THEN 0 ELSE parsed[1], 0, MaxAnnualExpense)

setAnnualExpenseToday(text) ==
    /\ pc = "idle" /\ ExpenseFromText(text) # annualExpenseToday
    /\ annualExpenseToday' = ExpenseFromText(text)
    /\ UNCHANGED <<variant, cost, units, scaleMode, inflationPercent, assetGrowthPercent,
                   extraYears, startingPortfolio, price>>
    /\ Recompute

setStartingPortfolio(v) ==
    /\ variant \in {"usdbtc", "assetadj"} /\ pc = "idle" /\ v # startingPortfolio
    /\ startingPortfolio' = v
    /\ UNCHANGED <<variant, cost, units, scaleMode, inflationPercent, assetGrowthPercent,
                   extraYears, annualExpenseToday, price>>
    /\ Recompute

setScaleMode(v) ==
    /\ variant = "cumulative" /\ pc = "idle" /\ v # scaleMode
    /\ scaleMode' = v
    /\ UNCHANGED <<variant, cost, units, params, price>>
    /\ Recompute

\* the projection depends on effectiveBtcPrice, not on the text itself
setBtcPriceInput(text) ==
    /\ variant = "cumulative" /\ pc = "idle" /\ text # btcPriceInput
    /\ btcPriceInput' = text
    /\ UNCHANGED <<variant, cost, units, scaleMode, params,
                   fetchedBtcPrice, btcUpdatedAt, btcFetchWarning, fetchPending>>
    /\ IF EffectivePrice(text, fetchedBtcPrice) # effectiveBtcPrice
       THEN Recompute
       ELSE UNCHANGED memo

(***************************************************************************)
(* loadBtcPrice, src/unnamed/part_000:293-329: the request started by the  *)
(* mount effect comes back with response resp.                             *)
(***************************************************************************)
ThrowsOnMissingOnly(resp) == resp.status # "payload" \/ resp.usd = None

ThrowsOnFalsyOnly(resp) == resp.status # "payload" \/ resp.usd = None \/ resp.usd[1] = 0

\* !response.ok, a rejected fetch() or json(), or !usdPrice || usdPrice <= 0
Throws(resp) ==
    \/ resp.status # "payload"
    \/ resp.usd = None
    \/ resp.usd[1] = 0
    \/ resp.usd[1] <= 0

loadBtcPriceKeepingInput(resp) ==
    /\ variant = "cumulative" /\ fetchPending /\ pc = "idle"
    /\ fetchPending' = FALSE
    /\ IF ~Throws(resp)
       THEN /\ fetchedBtcPrice' = resp.usd[1]
            /\ btcUpdatedAt' = IF resp.last_updated_at # None
                               THEN Some("last_updated_at") ELSE Some("now")
            /\ btcFetchWarning' = None
       ELSE /\ fetchedBtcPrice' = FALLBACK_BTC_PRICE
            /\ btcUpdatedAt' = None
            /\ btcFetchWarning' =
                 Some("Could not fetch BTC price from CoinGecko. Using fallback P0 = 60,000 USD.")
    /\ UNCHANGED <<variant, cost, units, scaleMode, params, btcPriceInput>>
    /\ IF EffectivePrice(btcPriceInput', fetchedBtcPrice') # effectiveBtcPrice
       THEN Recompute
       ELSE UNCHANGED memo

loadBtcPrice(resp) ==
    /\ variant = "cumulative" /\ fetchPending /\ pc = "idle"
    /\ fetchPending' = FALSE
    /\ IF ~Throws(resp)
       THEN /\ fetchedBtcPrice' = resp.usd[1]
            /\ btcPriceInput' = String(resp.usd[1])
            /\ btcUpdatedAt' = IF resp.last_updated_at # None
                               THEN Some("last_updated_at") ELSE Some("now")
            /\ btcFetchWarning' = None
       ELSE /\ fetchedBtcPrice' = FALLBACK_BTC_PRICE
            /\ btcPriceInput' = String(FALLBACK_BTC_PRICE)
            /\ btcUpdatedAt' = None
            /\ btcFetchWarning' =
                 Some("Could not fetch BTC price from CoinGecko. Using fallback P0 = 60,000 USD.")
    /\ UNCHANGED <<variant, cost, units, scaleMode, params>>
    /\ IF EffectivePrice(btcPriceInput', fetchedBtcPrice') # effectiveBtcPrice
       THEN Recompute
       ELSE UNCHANGED memo

Next ==
    \/ LoopUsdBtc
    \/ ReturnUsdBtc
    \/ LoopAssetAdj
    \/ ReturnAssetAdj
    \/ LoopCumulative
    \/ ReturnCumulative
    \/ \E v \in {"USD", "BTC"} : setUnits(v)
    \/ \E v \in InflationValues : setInflationPercent(v)
    \/ \E v \in AssetGrowthValues : setAssetGrowthPercent(v)
    \/ \E v \in ExtraYearsValues : setExtraYears(v)
    \/ \E text \in ExpenseTexts : setAnnualExpenseToday(text)
    \/ \E v \in PortfolioValues : setStartingPortfolio(v)
    \/ \E v \in {"linear", "log"} : setScaleMode(v)
    \/ \E text \in BtcPriceTexts : setBtcPriceInput(text)
    \/ \E resp \in Responses : loadBtcPrice(resp)

Spec == Init /\ [][Next]_vars

(***************************************************************************)
(* Cost-trajectory component, src/unnamed/part_000:26-58, with its inputs  *)
(* (part_000:76-141).  Its memo is one Array.from over t = 0..years, so it *)
(* is one step.  The number inputs hand over "" or the text of a number.   *)
(***************************************************************************)
\* texts of the starting-cost input: "", "-5", "50", "2000000"
StartingCostTexts == {<<>>, <<"-", "5">>, String(50), String(2000000)}
AssetInflationValues == {0, DefaultAssetInflation, 30}
FiatDeflationValues == {0, DefaultFiatDeflation}
YearsValues == (0..MaxT) \cup {DefaultYears}

\* Math.min(Math.max(value, 1), 1_000_000)
clampCurrencyInput(value) == clamp(value, MinStartingCost, MaxStartingCost)

ai == NumDiv(Num(assetInflation), Num(100))
fd == NumDiv(Num(fiatDeflation), Num(100))

netAdditive == NumSub(ai, fd)

\* net = (1 + ai) / (1 + fd) - 1
net == NumSub(NumDiv(NumAdd(Num(1), ai), NumAdd(Num(1), fd)), Num(1))

\* the point Array.from builds for index t
TrajectoryPoint(t) ==
    LET nominal == NumMul(Num(startingCost), NumPow(NumAdd(Num(1), ai), t))
        real == NumDiv(nominal, NumPow(NumAdd(Num(1), fd), t))
    IN  [year |-> t, nominal |-> nominal, real |-> real]

\* the other components' state, which this component does not have
projection == <<units, scaleMode, params, price,
                k, points, runningUsdTotal, runningBtcTotal, portfolio, depletion, result>>

InitCost ==
    /\ variant = "cost"
    /\ units = "USD"
    /\ scaleMode = "linear"
    /\ inflationPercent = DefaultInflationPercent
    /\ assetGrowthPercent = DefaultAssetGrowthPercent
    /\ extraYears = DefaultExtraYears
    /\ annualExpenseToday = DefaultAnnualExpenseToday
    /\ startingPortfolio = DefaultStartingPortfolio
    /\ fetchedBtcPrice = FALLBACK_BTC_PRICE
    /\ btcPriceInput = String(FALLBACK_BTC_PRICE)
    /\ btcUpdatedAt = None
    /\ btcFetchWarning = Some("Using fallback BTC price until market data loads.")
    /\ fetchPending = FALSE
    /\ pc = "memo"
    /\ k = 0
    /\ points = <<>>
    /\ runningUsdTotal = Num(0)
    /\ runningBtcTotal = Num(0)
    /\ portfolio = Num(DefaultStartingPortfolio)
    /\ depletion = None
    /\ result = None
    /\ startingCost = DefaultStartingCost
    /\ assetInflation = DefaultAssetInflation
    /\ fiatDeflation = DefaultFiatDeflation
    /\ years = DefaultYears
    /\ trajectory = None

\* the useMemo body, part_000:32-58
ComputeTrajectory ==
    /\ variant = "cost" /\ pc = "memo"
    /\ LET data == [j \in 1..(years + 1) |-> TrajectoryPoint(j - 1)]
           last == LastPoint(data, [nominal |-> Num(startingCost),
                                    real |-> Num(startingCost)])
       IN  trajectory' = Some([data |-> data,
                               finalNominal |-> last.nominal,
                               finalReal |-> last.real,
                               netRate |-> net])
    /\ pc' = "idle"
    /\ UNCHANGED <<variant, projection, startingCost, assetInflation, fiatDeflation, years>>

\* setStartingCost(clampCurrencyInput(Number(event.target.value)))
setStartingCost(text) ==
    /\ variant = "cost" /\ pc = "idle"
    /\ clampCurrencyInput(Number(text)[1]) # startingCost
    /\ startingCost' = clampCurrencyInput(Number(text)[1])
    /\ pc' = "memo" /\ trajectory' = None
    /\ UNCHANGED <<variant, projection, assetInflation, fiatDeflation, years>>

setAssetInflation(v) ==
    /\ variant = "cost" /\ pc = "idle" /\ v # assetInflation
    /\ assetInflation' = v
    /\ pc' = "memo" /\ trajectory' = None
    /\ UNCHANGED <<variant, projection, startingCost, fiatDeflation, years>>

setFiatDeflation(v) ==
    /\ variant = "cost" /\ pc = "idle" /\ v # fiatDeflation
    /\ fiatDeflation' = v
    /\ pc' = "memo" /\ trajectory' = None
    /\ UNCHANGED <<variant, projection, startingCost, assetInflation, years>>

setYears(v) ==
    /\ variant = "cost" /\ pc = "idle" /\ v # years
    /\ years' = v
    /\ pc' = "memo" /\ trajectory' = None
    /\ UNCHANGED <<variant, projection, startingCost, assetInflation, fiatDeflation>>

NextCost ==
    \/ ComputeTrajectory
    \/ \E text \in StartingCostTexts : setStartingCost(text)
    \/ \E v \in AssetInflationValues : setAssetInflation(v)
    \/ \E v \in FiatDeflationValues : setFiatDeflation(v)
    \/ \E v \in YearsValues : setYears(v)

SpecCost == InitCost /\ [][NextCost]_vars

(***************************************************************************)
(* Reference values of the claims, computed from the integer percentages   *)
(* without the program's intermediate quotients.                           *)
(***************************************************************************)
RECURSIVE MagPowInt(_, _)
\* b^e for a limb b
MagPowInt(b, e) ==
    IF e = 0 THEN <<1>>
    ELSE LET half == MagPowInt(b, e \div 2)
             square == MagMul(half, half)
         IN  IF e % 2 = 0 THEN square ELSE MagMulSmall(square, b, 0)

\* ((1+i)/(1+a))^e = (100 + inflationPercent)^e / (100 + assetGrowthPercent)^e
RefRatio(e) ==
    [n |-> BigInt(FALSE, MagPowInt(100 + inflationPercent, e)),
     d |-> MagPowInt(100 + assetGrowthPercent, e)]

\* E0*(1+i)^e = annualExpenseToday * (100 + inflationPercent)^e / 100^e
RefNominal(e) ==
    [n |-> BigInt(FALSE, MagMul(MagFromNat(annualExpenseToday),
                                MagPowInt(100 + inflationPercent, e))),
     d |-> MagPowInt(100, e)]

\* (1+a)^e
RefGrowth(e) ==
    [n |-> BigInt(FALSE, MagPowInt(100 + assetGrowthPercent, e)), d |-> MagPowInt(100, e)]

RECURSIVE RefSumNominal(_)
\* the sum of E0*(1+i)^j over j = 1..e
RefSumNominal(e) == IF e = 0 THEN Num(0) ELSE NumAdd(RefSumNominal(e - 1), RefNominal(e))

Portfolios == {"usdbtc", "assetadj"}
Rendered == pc = "idle"

\* the fields of a series point under the names of the data model
NominalOf(pt) == IF variant = "usdbtc" THEN pt.E_nom_usd ELSE pt.nominalExpense
BalanceOf(pt) == IF variant = "usdbtc" THEN pt.P_usd ELSE pt.portfolio

(***************************************************************************)
(* C1: every returned series has exactly T+1 points, the point at index k  *)
(* has year k (so the years are 0..T, strictly increasing), and in the     *)
(* variants with those fields the first point has ratio 1 and nominal      *)
(* expense E0.                                                             *)
(***************************************************************************)
C1_SeriesShape ==
    Rendered =>
        LET series == result[1].series
        IN  /\ Len(series) = extraYears + 1
            /\ \A j \in 1..Len(series) : series[j].year = j - 1
            /\ variant \in Portfolios =>
                 /\ NumEq(series[1].ratio, Num(1))
                 /\ NumEq(NominalOf(series[1]), Num(annualExpenseToday))

C1_Witness ==
    /\ Rendered /\ variant = "assetadj" /\ extraYears = 2
    /\ Len(result[1].series) = 3 /\ result[1].series[3].year = 2
    /\ annualExpenseToday = 50

(***************************************************************************)
(* C2: the reported Lifespan Inflation Factor is ((1+i)/(1+a))^T - 1; where *)
(* the summary has them, it is the ratio of the last point minus 1, and    *)
(* lifespanInflationPercent is 100 times it.                               *)
(***************************************************************************)
C2_LifClosedForm ==
    Rendered =>
        LET r == result[1]
        IN  /\ NumEq(r.lifespanInflationFactor, NumSub(RefRatio(extraYears), Num(1)))
            /\ variant \in Portfolios =>
                 /\ NumEq(r.finalRatio, r.series[Len(r.series)].ratio)
                 /\ r.series[Len(r.series)].year = extraYears
                 /\ NumEq(r.lifespanInflationFactor, NumSub(r.finalRatio, Num(1)))
                 /\ NumEq(r.lifespanInflationPercent,
                          NumMul(Num(100), NumSub(RefRatio(extraYears), Num(1))))

C2_Witness ==
    /\ Rendered /\ variant = "usdbtc" /\ extraYears = 2
    /\ inflationPercent = 3 /\ assetGrowthPercent = -10
    /\ NumLt(Num(0), result[1].lifespanInflationFactor)

(***************************************************************************)
(* C3: the reported depletion year is the least k in 0..T with             *)
(* balance(k) <= 0, year 0 included, and it is null exactly when no such   *)
(* k exists.  (The code only looks at k >= 1.)                             *)
(***************************************************************************)
DepletedAt(series, j) == NumLeq(BalanceOf(series[j]), Num(0))

C3_DepletionIsFirstNonPositive ==
    (Rendered /\ variant \in Portfolios) =>
        LET series == result[1].series
            year == result[1].depletionYear
        IN  IF \E j \in 1..Len(series) : DepletedAt(series, j)
            THEN /\ year # None
                 /\ DepletedAt(series, year[1] + 1)
                 /\ \A j \in 1..year[1] : ~DepletedAt(series, j)
            ELSE year = None

(***************************************************************************)
(* C4: once the loop has set depletion, no later iteration (and not the    *)
(* return) changes it, although later balances are <= 0 too; and for       *)
(* P0 = 100, E0 = 50, a = 0, i = 0, T >= 2 the balances start 100, 50, 0   *)
(* and the reported depletion year is 2.                                   *)
(***************************************************************************)
C4_Example ==
    /\ variant \in Portfolios
    /\ startingPortfolio = 100 /\ annualExpenseToday = 50
    /\ assetGrowthPercent = 0 /\ inflationPercent = 0 /\ extraYears >= 2

C4_DepletionRecordedOnce ==
    /\ [][(pc = "memo" /\ depletion # None) => depletion' = depletion]_vars
    /\ [](C4_Example /\ Rendered =>
            /\ result[1].depletionYear = Some(2)
            /\ NumEq(BalanceOf(result[1].series[1]), Num(100))
            /\ NumEq(BalanceOf(result[1].series[2]), Num(50))
            /\ NumEq(BalanceOf(result[1].series[3]), Num(0)))

\* a later iteration found a balance <= 0 again and left the year alone
C4_Witness ==
    /\ C4_Example /\ pc = "memo" /\ k = 4
    /\ depletion = Some(2) /\ NumLt(portfolio, Num(0))

(***************************************************************************)
(* C5: in the portfolio variants the balance of point 0 is P0, the balance *)
(* of point k >= 1 is balance(k-1)*(1+a) - E0*(1+i)^k, the stored nominal  *)
(* expense is E0*(1+i)^k, and the reported final portfolio (USD/BTC        *)
(* variant) is balance(T).                                                 *)
(***************************************************************************)
C5_BalanceRecurrence ==
    variant \in Portfolios =>
        /\ \A j \in 1..Len(points) :
              /\ NumEq(NominalOf(points[j]), RefNominal(j - 1))
              /\ IF j = 1
                 THEN NumEq(BalanceOf(points[j]), Num(startingPortfolio))
                 ELSE NumEq(BalanceOf(points[j]),
                            NumSub(NumMul(BalanceOf(points[j - 1]), RefGrowth(1)),
                                   RefNominal(j - 1)))
        /\ (Rendered /\ variant = "usdbtc") =>
              NumEq(result[1].finalPortfolioUsd,
                    result[1].series[extraYears + 1].P_usd)

C5_Witness ==
    /\ Rendered /\ variant = "usdbtc" /\ extraYears = 2
    /\ startingPortfolio = 100 /\ annualExpenseToday = 50
    /\ inflationPercent = 3 /\ assetGrowthPercent = -10
    /\ NumLt(result[1].finalPortfolioUsd, Num(0))

(***************************************************************************)
(* C6: period 0 contributes to no total.  The totals of the summary are    *)
(* the sums of the per-period values over k = 1..T (0 when T = 0), the     *)
(* cumulative values of year 0 are 0, and in the cumulative variant        *)
(* series[k].cumUsd is the sum of E0*(1+i)^j over j = 1..k.                *)
(***************************************************************************)
RECURSIVE SumFrom2(_, _)
\* the sum of vals[j] over j = 2..e
SumFrom2(vals, e) == IF e < 2 THEN Num(0) ELSE NumAdd(SumFrom2(vals, e - 1), vals[e])

C6_TotalsSkipYearZero ==
    /\ variant = "cumulative" =>
          \A j \in 1..Len(points) :
              /\ NumEq(points[j].cumUsd, RefSumNominal(j - 1))
              /\ j = 1 => NumEq(points[j].cumBtc, Num(0))
    /\ (Rendered /\ variant = "cumulative") =>
          /\ NumEq(result[1].cumUsdAtT, RefSumNominal(extraYears))
          /\ extraYears = 0 => NumEq(result[1].cumBtcAtT, Num(0))
    /\ (Rendered /\ variant = "usdbtc") =>
          /\ NumEq(result[1].totalExpensesUsd, RefSumNominal(extraYears))
          /\ NumEq(result[1].totalExpensesBtc,
                   SumFrom2([j \in 1..Len(points) |-> points[j].E_btc], Len(points)))
    /\ (Rendered /\ variant = "assetadj") =>
          /\ NumEq(result[1].totalNominal, RefSumNominal(extraYears))
          /\ NumEq(result[1].totalAssetAdjusted,
                   SumFrom2([j \in 1..Len(points) |-> points[j].assetAdjustedExpense],
                            Len(points)))

C6_Witness ==
    /\ Rendered /\ variant = "cumulative" /\ extraYears = 2
    /\ annualExpenseToday = DefaultAnnualExpenseToday /\ inflationPercent = 3
    /\ NumEq(result[1].series[1].cumUsd, Num(0))
    /\ NumLt(Num(DefaultAnnualExpenseToday * 2), result[1].cumUsdAtT)

(***************************************************************************)
(* C7: every reported average is the running total divided by T when       *)
(* T > 0 and is 0 when T = 0, and no division by zero was evaluated: every *)
(* number of the series and of the summary is finite.                      *)
(***************************************************************************)
AveragesOf(r) ==
    IF variant = "usdbtc"
    THEN <<<<r.avgAnnualExpenseUsd, r.totalExpensesUsd>>,
           <<r.avgAnnualExpenseBtc, r.totalExpensesBtc>>>>
    ELSE <<<<r.avgNominal, r.totalNominal>>, <<r.avgAssetAdjusted, r.totalAssetAdjusted>>>>

PointNumbers(pt) ==
    IF variant = "usdbtc" THEN {pt.ratio, pt.E_nom_usd, pt.P_usd, pt.E_btc, pt.P_btc}
    ELSE IF variant = "assetadj"
    THEN {pt.ratio, pt.nominalExpense, pt.assetAdjustedExpense, pt.portfolio}
    ELSE {pt.cumUsd, pt.cumBtc}

C7_AverageGuardsZeroHorizon ==
    /\ \A j \in 1..Len(points) : \A v \in PointNumbers(points[j]) : IsFinite(v)
    /\ Rendered => IsFinite(result[1].lifespanInflationFactor)
    /\ (Rendered /\ variant \in Portfolios) =>
          \A j \in 1..2 :
              LET avg == AveragesOf(result[1])[j][1]
                  total == AveragesOf(result[1])[j][2]
              IN  /\ IsFinite(avg)
                  /\ IF extraYears > 0
                     THEN NumEq(NumMul(avg, Num(extraYears)), total)
                     ELSE avg = Num(0)

C7_Witness ==
    /\ Rendered /\ variant = "usdbtc" /\ extraYears = 0
    /\ annualExpenseToday = DefaultAnnualExpenseToday
    /\ result[1].avgAnnualExpenseUsd = Num(0)
    /\ result[1].avgAnnualExpenseBtc = Num(0)

(***************************************************************************)
(* C8: for every k in 1..T, ratio(k) > ratio(k-1) when i > a,              *)
(* ratio(k) < ratio(k-1) when i < a, and ratio(k) = 1 for all k when       *)
(* i = a.                                                                  *)
(***************************************************************************)
C8_RatioMonotone ==
    variant \in Portfolios =>
        \A j \in 1..Len(points) :
            /\ inflationPercent = assetGrowthPercent => NumEq(points[j].ratio, Num(1))
            /\ (j > 1 /\ inflationPercent > assetGrowthPercent) =>
                  NumLt(points[j - 1].ratio, points[j].ratio)
            /\ (j > 1 /\ inflationPercent < assetGrowthPercent) =>
                  NumLt(points[j].ratio, points[j - 1].ratio)

C8_Witness ==
    /\ variant = "assetadj" /\ Len(points) = 3
    /\ inflationPercent = 3 /\ assetGrowthPercent = 0
    /\ NumLt(Num(1), points[2].ratio) /\ NumLt(points[2].ratio, points[3].ratio)

(***************************************************************************)
(* C9: for i = 0.03, a = 0.07, T = 10, E0 = 60000 (the defaults) ratioBase *)
(* is 0.9626 to four decimals, the Lifespan Inflation Factor is about      *)
(* -0.322 (about -32%), and the final nominal expense 60000*1.03^10 is     *)
(* 80635.33 to two decimals.  The code's values are -0.3168 (-0.317 to     *)
(* three decimals, -32% to the percent) and 80634.98.                      *)
(***************************************************************************)
NumAbs(v) == IF v.n.neg THEN NumNeg(v) ELSE v

\* v rounded to a multiple of 1/scale is m/scale
RoundsTo(v, m, scale) ==
    NumLeq(NumMul(Num(2), NumAbs(NumSub(NumMul(v, Num(scale)), Num(m)))), Num(1))

C9_Example ==
    /\ Rendered
    /\ inflationPercent = 3 /\ assetGrowthPercent = 7
    /\ extraYears = 10 /\ annualExpenseToday = 60000

FinalNominalOf(r) ==
    IF variant = "usdbtc" THEN r.finalAnnualExpenseUsd ELSE r.finalNominalExpense

\* the example as the specification gives it
C9_SpecExample ==
    C9_Example =>
        /\ RoundsTo(ratioBase, 9626, 10000)
        /\ RoundsTo(result[1].lifespanInflationFactor, -322, 1000)
        /\ variant \in Portfolios => RoundsTo(FinalNominalOf(result[1]), 8063533, 100)

\* the example with the values the formulas give
C9_ExampleValues ==
    C9_Example =>
        /\ RoundsTo(ratioBase, 9626, 10000)
        /\ RoundsTo(result[1].lifespanInflationFactor, -3168, 10000)
        /\ RoundsTo(NumMul(result[1].lifespanInflationFactor, Num(100)), -32, 1)
        /\ variant \in Portfolios => RoundsTo(FinalNominalOf(result[1]), 8063498, 100)

C9_Witness ==
    /\ C9_Example /\ variant = "usdbtc"
    /\ Len(result[1].series) = 11
    /\ NumLt(Num(80634), result[1].finalAnnualExpenseUsd)
    /\ NumLt(result[1].finalAnnualExpenseUsd, Num(80635))

(***************************************************************************)
(* C10: when the price request fails (fetch or json() rejects, a non-OK    *)
(* status, a payload without bitcoin.usd, a usd price <= 0), then right    *)
(* after loadBtcPrice has handled it fetchedBtcPrice and the effective BTC *)
(* price are the fallback 60000 and the warning is not null.               *)
(***************************************************************************)
FetchFailed(resp) ==
    \/ resp.status # "payload"
    \/ resp.usd = None
    \/ resp.usd[1] <= 0

C10_FailureFallsBack ==
    [][\A resp \in Responses :
          (FetchFailed(resp) /\ loadBtcPrice(resp)) =>
              /\ fetchedBtcPrice' = FALLBACK_BTC_PRICE
              /\ EffectivePrice(btcPriceInput', fetchedBtcPrice') = FALLBACK_BTC_PRICE
              /\ btcFetchWarning' # None]_vars

\* a failed request has been handled and the projection is about to rerun
C10_Witness ==
    /\ variant = "cumulative" /\ ~fetchPending
    /\ btcUpdatedAt = None /\ btcFetchWarning # None
    /\ pc = "memo" /\ k = 0
    /\ effectiveBtcPrice = FALLBACK_BTC_PRICE /\ fetchedBtcPrice = FALLBACK_BTC_PRICE
    /\ btcPriceInput = String(FALLBACK_BTC_PRICE)
    /\ inflationPercent = DefaultInflationPercent
    /\ assetGrowthPercent = DefaultAssetGrowthPercent
    /\ extraYears = DefaultExtraYears
    /\ annualExpenseToday = DefaultAnnualExpenseToday
    /\ scaleMode = "linear"

(***************************************************************************)
(* C11: the price request is one attempt, started at mount and never       *)
(* retried: once it has completed nothing it wrote changes again.  In      *)
(* every state the warning is null exactly when the attempt has completed  *)
(* successfully, and fetchedBtcPrice differs from the fallback 60000 only  *)
(* when the attempt succeeded with that positive price.                    *)
(***************************************************************************)
FetchSucceeded == ~fetchPending /\ btcUpdatedAt # None

C11_SingleAttempt ==
    /\ [](btcFetchWarning = None <=> FetchSucceeded)
    /\ [](fetchedBtcPrice # FALLBACK_BTC_PRICE => FetchSucceeded /\ fetchedBtcPrice > 0)
    /\ [][\A resp \in Responses :
             loadBtcPrice(resp) =>
                 /\ fetchPending /\ ~fetchPending'
                 /\ btcUpdatedAt' # None <=> ~FetchFailed(resp)
                 /\ ~FetchFailed(resp) => fetchedBtcPrice' = resp.usd[1]]_vars
    /\ [][fetchPending' # fetchPending => \E resp \in Responses : loadBtcPrice(resp)]_vars
    /\ [][~fetchPending =>
             UNCHANGED <<fetchPending, fetchedBtcPrice, btcUpdatedAt, btcFetchWarning>>]_vars

\* the request succeeded with 50000 and the override was edited afterwards
C11_Witness ==
    /\ variant = "cumulative" /\ Rendered /\ FetchSucceeded
    /\ btcFetchWarning = None
    /\ fetchedBtcPrice = 50000
    /\ btcPriceInput = String(70000)

(***************************************************************************)
(* C12: when the text of the BTC price override is not a finite positive   *)
(* number, the effective price keeps the value it had before the edit      *)
(* (after a valid override v and then an invalid entry it is still v), and *)
(* no error results.  The code falls back to fetchedBtcPrice instead.      *)
(***************************************************************************)
InvalidOverride(text) ==
    LET parsed == Number(text)
    IN  parsed = None \/ parsed[1] <= 0

\* the claim as the specification states it
C12_PriorValueRetained ==
    [][\A text \in BtcPriceTexts :
          (InvalidOverride(text) /\ setBtcPriceInput(text)) =>
              EffectivePrice(btcPriceInput', fetchedBtcPrice') = effectiveBtcPrice]_vars

\* the effective price of an invalid override is the fetched (or fallback)
\* price, whatever the effective price was before, and the edit changes
\* nothing but the text and the projection
C12_FallsBackToFetched ==
    /\ [](InvalidOverride(btcPriceInput) => effectiveBtcPrice = fetchedBtcPrice)
    /\ [][\A text \in BtcPriceTexts :
             (InvalidOverride(text) /\ setBtcPriceInput(text)) =>
                 /\ EffectivePrice(btcPriceInput', fetchedBtcPrice') = fetchedBtcPrice
                 /\ UNCHANGED <<fetchedBtcPrice, btcUpdatedAt, btcFetchWarning>>]_vars

\* the override has just been emptied and the projection reruns with the
\* fetched price 50000
C12_Witness ==
    /\ variant = "cumulative" /\ FetchSucceeded
    /\ btcPriceInput = <<>> /\ fetchedBtcPrice = 50000
    /\ effectiveBtcPrice = 50000
    /\ pc = "memo" /\ k = 0

(***************************************************************************)
(* C13: the expense of period k in the secondary (BTC) unit is             *)
(* nominalExpense(k) / assetPrice(k) with assetPrice(k) = P0_price*(1+a)^k *)
(* for every k in 0..T, and the cumulative BTC total is the sum of these   *)
(* over k = 1..T.  P0_price is the effective BTC price in the cumulative   *)
(* variant; the USD/BTC variant divides by the index (1+a)^k, whose value  *)
(* at year 0 is 1, and converts the portfolio balance the same way.        *)
(***************************************************************************)
StartingAssetPrice == IF variant = "cumulative" THEN effectiveBtcPrice ELSE 1

\* nominalExpense(e) / (P0_price * (1+a)^e)
RefExpenseBtc(e) ==
    NumDiv(RefNominal(e), NumMul(Num(StartingAssetPrice), RefGrowth(e)))

RECURSIVE RefSumBtc(_)
\* the sum of RefExpenseBtc(j) over j = 1..e
RefSumBtc(e) == IF e = 0 THEN Num(0) ELSE NumAdd(RefSumBtc(e - 1), RefExpenseBtc(e))

C13_BtcConversion ==
    /\ (Rendered /\ variant = "cumulative") =>
          LET series == result[1].series
          IN  /\ \A j \in 1..Len(series) :
                    NumEq(NumSub(series[j].cumBtc,
                                 IF j = 1 THEN Num(0) ELSE series[j - 1].cumBtc),
                          IF j = 1 THEN Num(0) ELSE RefExpenseBtc(j - 1))
              /\ NumEq(result[1].cumBtcAtT, RefSumBtc(extraYears))
    /\ (Rendered /\ variant = "usdbtc") =>
          LET series == result[1].series
          IN  /\ \A j \in 1..Len(series) :
                    /\ NumEq(series[j].E_btc, RefExpenseBtc(j - 1))
                    /\ NumEq(series[j].P_btc, NumDiv(series[j].P_usd, RefGrowth(j - 1)))
              /\ NumEq(result[1].totalExpensesBtc, RefSumBtc(extraYears))
              /\ NumEq(result[1].finalAnnualExpenseBtc, RefExpenseBtc(extraYears))

\* two years at the overridden price 70000 with the default expense
C13_Witness ==
    /\ Rendered /\ variant = "cumulative" /\ extraYears = 2
    /\ effectiveBtcPrice = 70000 /\ fetchedBtcPrice # 70000
    /\ annualExpenseToday = DefaultAnnualExpenseToday
    /\ NumLt(Num(1), result[1].cumBtcAtT)
    /\ NumLt(result[1].cumBtcAtT, Num(2))

(***************************************************************************)
(* C14: the projection is a pure function of (inflation, growth, horizon,  *)
(* base expense, starting portfolio or effective price): whatever was      *)
(* computed before, the rendered series, totals, depletion year and LIF    *)
(* are those of a run that starts from fresh locals with the current       *)
(* parameters; and a change of the display selector alone (units,          *)
(* scaleMode) changes no parameter, so it leaves them as they are.         *)
(***************************************************************************)
FreshLocals ==
    [points |-> <<>>, usd |-> Num(0), btc |-> Num(0),
     portfolio |-> Num(startingPortfolio), depletion |-> None]

\* one iteration of the loop of variant v at year kk on the locals prev
FreshStep(v, prev, kk) ==
    LET nominal == NominalExpense(kk)
        pf == PortfolioStep(prev.portfolio, kk, nominal)
        second == IF v = "usdbtc" THEN NumDiv(nominal, BtcUsdIndex(kk))
                  ELSE IF v = "assetadj" THEN AssetAdjustedExpense(kk)
                  ELSE NumDiv(nominal, NumMul(Num(effectiveBtcPrice), BtcUsdIndex(kk)))
        usd == Accumulate(prev.usd, kk, nominal)
        btc == Accumulate(prev.btc, kk, second)
        point == IF v = "usdbtc"
                 THEN [year |-> kk, ratio |-> Ratio(kk), E_nom_usd |-> nominal,
                       P_usd |-> pf, E_btc |-> second,
                       P_btc |-> NumDiv(pf, BtcUsdIndex(kk))]
                 ELSE IF v = "assetadj"
                 THEN [year |-> kk, ratio |-> Ratio(kk), nominalExpense |-> nominal,
                       assetAdjustedExpense |-> second, portfolio |-> pf]
                 ELSE [year |-> kk, cumUsd |-> usd, cumBtc |-> btc]
    IN  [points |-> Append(prev.points, point), usd |-> usd, btc |-> btc,
         portfolio |-> IF v = "cumulative" THEN prev.portfolio ELSE pf,
         depletion |-> IF v = "cumulative" THEN prev.depletion
                       ELSE DepletionStep(prev.depletion, kk, pf)]

RECURSIVE FreshRun(_, _)
\* the locals of variant v after the iterations of the years 0..e-1
FreshRun(v, e) == IF e = 0 THEN FreshLocals ELSE FreshStep(v, FreshRun(v, e - 1), e - 1)

\* the totals at T and the depletion year of a summary
TotalsOf(r) ==
    IF variant = "usdbtc" THEN <<r.totalExpensesUsd, r.totalExpensesBtc, r.depletionYear>>
    ELSE IF variant = "assetadj" THEN <<r.totalNominal, r.totalAssetAdjusted, r.depletionYear>>
    ELSE <<r.cumUsdAtT, r.cumBtcAtT, None>>

C14_ProjectionIsPure ==
    /\ [](Rendered =>
            LET fresh == FreshRun(variant, extraYears + 1)
            IN  /\ result[1].series = fresh.points
                /\ TotalsOf(result[1]) = <<fresh.usd, fresh.btc, fresh.depletion>>
                /\ result[1].lifespanInflationFactor = lif)
    /\ [][\A v \in {"USD", "BTC"} : setUnits(v) => UNCHANGED <<params, result>>]_vars
    /\ [][\A v \in {"linear", "log"} :
             setScaleMode(v) => UNCHANGED <<params, price>>]_vars

\* rendered in BTC units after the defaults and other settings were rendered
C14_Witness ==
    /\ Rendered /\ variant = "usdbtc" /\ units = "BTC"
    /\ extraYears = 1 /\ startingPortfolio = 100 /\ inflationPercent = 0
    /\ annualExpenseToday = 50
    /\ Len(result[1].series) = 2
    /\ result[1].depletionYear = None

(***************************************************************************)
(* C15: in log scale mode the plotted series leaves out year 0 so that no  *)
(* plotted value is non-positive: chartSeries holds the T points of the    *)
(* years 1..T in log mode and all T+1 points in linear mode, and in log    *)
(* mode every plotted cumUsd and cumBtc is > 0, E0 = 0 and T = 0 included. *)
(* (With E0 = 0 every cumulative value is 0, and year 1 is plotted.)       *)
(***************************************************************************)
C15_LogSeriesPositive ==
    (Rendered /\ variant = "cumulative") =>
        LET chart == result[1].chartSeries
        IN  IF scaleMode = "log"
            THEN /\ Len(chart) = extraYears
                 /\ \A j \in 1..Len(chart) :
                       /\ chart[j].year = j
                       /\ NumLt(Num(0), chart[j].cumUsd)
                       /\ NumLt(Num(0), chart[j].cumBtc)
            ELSE /\ Len(chart) = extraYears + 1
                 /\ \A j \in 1..Len(chart) : chart[j].year = j - 1

(***************************************************************************)
(* C16: for the same (i, a, T, E0, P0) the USD/BTC and the asset-adjusted  *)
(* variant agree on ratio(k), nominal expense(k), USD balance(k), the      *)
(* depletion year, the LIF and the nominal total and average, and the      *)
(* first variant's BTC expense nominalExpense(k)/(1+a)^k is the second's   *)
(* asset-adjusted expense E0*ratio(k), for every k in 0..T.  The rendered  *)
(* variant is compared with the other variant run on the same parameters;  *)
(* the last equality is one of values, the two being computed by different *)
(* expressions.                                                            *)
(***************************************************************************)
\* series, nominal total and depletion year of variant v on the current
\* parameters: the rendered result when v is the variant that runs
OutputsOf(v) ==
    IF v = variant
    THEN [series |-> result[1].series, total |-> TotalsOf(result[1])[1],
          average |-> AveragesOf(result[1])[1][1],
          depletionYear |-> result[1].depletionYear,
          lif |-> result[1].lifespanInflationFactor]
    ELSE LET fresh == FreshRun(v, extraYears + 1)
         IN  [series |-> fresh.points, total |-> fresh.usd,
              average |-> Average(fresh.usd),
              depletionYear |-> fresh.depletion, lif |-> lif]

C16_VariantsAgree ==
    (Rendered /\ variant \in Portfolios) =>
        LET first == OutputsOf("usdbtc")
            second == OutputsOf("assetadj")
        IN  /\ Len(first.series) = Len(second.series)
            /\ \A j \in 1..Len(first.series) :
                  /\ first.series[j].ratio = second.series[j].ratio
                  /\ first.series[j].E_nom_usd = second.series[j].nominalExpense
                  /\ first.series[j].P_usd = second.series[j].portfolio
                  /\ NumEq(first.series[j].E_btc, second.series[j].assetAdjustedExpense)
            /\ first.depletionYear = second.depletionYear
            /\ first.lif = second.lif
            /\ first.total = second.total
            /\ first.average = second.average

\* the asset-adjusted variant rendered a run that is depleted in year 2
C16_Witness ==
    /\ Rendered /\ variant = "assetadj" /\ extraYears = 2
    /\ assetGrowthPercent = -10 /\ startingPortfolio = 100 /\ annualExpenseToday = 50
    /\ result[1].depletionYear = Some(2)
    /\ NumLt(Num(50), result[1].series[3].assetAdjustedExpense)

(***************************************************************************)
(* C17: after any sequence of edits of the annual-expense input the stored *)
(* E0 is a number in [0, 10000000]: a value below 0 is stored as 0, one    *)
(* above 10000000 as 10000000, and empty or non-numeric text as 0.         *)
(***************************************************************************)
\* what the claim has stored for the text of the input
StoredExpense(text) ==
    LET parsed == Number(text)
    IN  IF parsed = None THEN 0
        ELSE IF parsed[1] < 0 THEN 0
        ELSE IF parsed[1] > 10000000 THEN 10000000
        ELSE parsed[1]

C17_ExpenseClamped ==
    /\ [](annualExpenseToday \in 0..10000000)
    /\ [][\A text \in ExpenseTexts :
             setAnnualExpenseToday(text) => annualExpenseToday' = StoredExpense(text)]_vars
    /\ [][annualExpenseToday' # annualExpenseToday =>
             \E text \in ExpenseTexts : annualExpenseToday' = StoredExpense(text)]_vars

\* 20000000 was entered and has been rendered as 10000000
C17_Witness ==
    /\ Rendered /\ variant = "cumulative"
    /\ annualExpenseToday = MaxAnnualExpense /\ extraYears = 1
    /\ NumEq(result[1].cumUsdAtT, Num(10300000))

(***************************************************************************)
(* C18: in every reachable state of the cumulative variant, whatever the   *)
(* interleaving of override edits with the completion of the request, the  *)
(* effective BTC price is a finite number > 0, so the BTC conversion never *)
(* divides by zero or by a non-finite value.                               *)
(***************************************************************************)
C18_EffectivePricePositive ==
    variant = "cumulative" =>
        /\ effectiveBtcPrice \in Int
        /\ effectiveBtcPrice > 0
        /\ fetchedBtcPrice > 0
        /\ \A j \in 1..Len(points) : IsFinite(points[j].cumBtc)

\* the request failed, the override is not a number, and the loop has
\* divided by the fallback price
C18_Witness ==
    /\ variant = "cumulative" /\ ~fetchPending /\ btcUpdatedAt = None
    /\ btcPriceInput = <<"a", "b", "c">>
    /\ effectiveBtcPrice = FALLBACK_BTC_PRICE
    /\ pc = "memo" /\ k = 2
    /\ NumLt(Num(0), points[2].cumBtc)

(***************************************************************************)
(* C19: the completion of the price request overwrites the override input: *)
(* when it completes, by success or by failure, btcPriceInput becomes the  *)
(* string of the fetchedBtcPrice it sets, so that the effective price is   *)
(* fetchedBtcPrice and an override entered before is lost; after the       *)
(* completion only the user's edits change the override.                   *)
(***************************************************************************)
C19_FetchOverwritesOverride ==
    /\ [][\A resp \in Responses :
             loadBtcPrice(resp) =>
                 /\ btcPriceInput' = String(fetchedBtcPrice')
                 /\ EffectivePrice(btcPriceInput', fetchedBtcPrice') = fetchedBtcPrice']_vars
    /\ [][(~fetchPending /\ btcPriceInput' # btcPriceInput) =>
             \E text \in BtcPriceTexts : setBtcPriceInput(text)]_vars

\* the request has just succeeded with 50000 while another effective price
\* was in use, and the projection reruns with 50000
C19_Witness ==
    /\ variant = "cumulative" /\ FetchSucceeded
    /\ btcPriceInput = String(50000) /\ effectiveBtcPrice = 50000
    /\ pc = "memo" /\ k = 0
    /\ scaleMode = "log" /\ annualExpenseToday = 0

(***************************************************************************)
(* C20: depletion is absorbing (E0 >= 0, i >= 0, 1 + a > 0): once          *)
(* balance(k) <= 0 every later balance is <= 0; hence the final portfolio  *)
(* is <= 0 whenever a depletion year is reported and, for P0 > 0, a        *)
(* depletion year is reported whenever the final portfolio is <= 0.        *)
(***************************************************************************)
C20_DepletionAbsorbing ==
    /\ variant \in Portfolios =>
          \A j \in 1..Len(points) : \A l \in j..Len(points) :
              DepletedAt(points, j) => DepletedAt(points, l)
    /\ (Rendered /\ variant \in Portfolios) =>
          LET series == result[1].series
              final == BalanceOf(series[Len(series)])
          IN  /\ result[1].depletionYear # None => NumLeq(final, Num(0))
              /\ (startingPortfolio > 0 /\ NumLeq(final, Num(0))) =>
                     result[1].depletionYear # None
              /\ variant = "usdbtc" => result[1].finalPortfolioUsd = final

\* P0 = 100, E0 = 50, a = i = 0: the balance reaches exactly 0 in year 2
\* and stays at or below 0 to year 10
C20_Witness ==
    /\ Rendered /\ C4_Example /\ variant = "usdbtc" /\ extraYears = 10
    /\ result[1].depletionYear = Some(2)
    /\ NumEq(result[1].series[3].P_usd, Num(0))
    /\ NumLt(result[1].finalPortfolioUsd, Num(0))

(***************************************************************************)
(* C21: in the cost-trajectory component, for every horizon years >= 0 the *)
(* data series has years+1 points, nominal(0) = real(0) = C0,              *)
(* nominal(t) = C0*(1+ai)^t, and real(t) = nominal(t)/(1+fd)^t             *)
(* = C0*(1+netRate)^t with the reported netRate = (1+ai)/(1+fd) - 1;       *)
(* finalNominal and finalReal are the values of the last point (t = years).*)
(***************************************************************************)
\* b^e / 100^e for a percentage b - 100
RefPercentPow(b, e) == [n |-> BigInt(FALSE, MagPowInt(b, e)), d |-> MagPowInt(100, e)]

C21_CostTrajectory ==
    (variant = "cost" /\ Rendered) =>
        LET r == trajectory[1]
            data == r.data
        IN  /\ Len(data) = years + 1
            /\ NumEq(data[1].nominal, Num(startingCost))
            /\ NumEq(data[1].real, Num(startingCost))
            /\ NumEq(NumMul(NumAdd(Num(1), r.netRate), Num(100 + fiatDeflation)),
                     Num(100 + assetInflation))
            /\ \A j \in 1..Len(data) :
                  /\ data[j].year = j - 1
                  /\ NumEq(data[j].nominal,
                           NumMul(Num(startingCost),
                                  RefPercentPow(100 + assetInflation, j - 1)))
                  /\ NumEq(data[j].real,
                           NumDiv(data[j].nominal,
                                  RefPercentPow(100 + fiatDeflation, j - 1)))
                  /\ NumEq(data[j].real,
                           NumMul(Num(startingCost),
                                  NumPow(NumAdd(Num(1), r.netRate), j - 1)))
            /\ r.finalNominal = data[Len(data)].nominal
            /\ r.finalReal = data[Len(data)].real

\* 2000000 was entered and clamped to 1000000; thirty years at ai = 30%
\* and fd = 3%
C21_Witness ==
    /\ variant = "cost" /\ Rendered
    /\ years = DefaultYears /\ startingCost = MaxStartingCost
    /\ assetInflation = 30 /\ fiatDeflation = DefaultFiatDeflation
    /\ Len(trajectory[1].data) = 31
    /\ NumLt(Num(1000000000), trajectory[1].finalReal)
    /\ NumLt(trajectory[1].finalReal, trajectory[1].finalNominal)

====
